---------------------------- MODULE Spec2Model ----------------------------
(***************************************************************************)
(* A model of CommonMark/html.py: the HTML renderer of CommonMark-py.      *)
(*                                                                         *)
(* Python strings are modelled as sequences of one-character strings, so   *)
(* that the regular expressions of the module (tag stripping, the unsafe   *)
(* protocol test, the split of a code block's info string) are computed    *)
(* character by character, as the code computes them.                      *)
(***************************************************************************)
EXTENDS Integers, Sequences, FiniteSets, TLC

VARIABLES
    rs,      \* rs[i]: the fields of HtmlRenderer instance i (self.*)
    calls    \* calls[c]: the locals of render call c (walker, event, result)

vars == <<rs, calls>>

-----------------------------------------------------------------------------
(* Bounds of the model.                                                    *)

\* the nodes of one document of Spec
MaxNodes == 2
\* the nodes of one document of SpecTight
MaxTightNodes == 5
\* the nodes of one document of SpecUrl
MaxUrlNodes == 1
\* the nodes of one document of SpecAlt
MaxAltNodes == 4
\* the nodes of one document of SpecReuse
MaxReuseNodes == 3
\* the render calls made one after another on the instance of SpecReuse
MaxCalls == 3

-----------------------------------------------------------------------------
(* Strings.                                                                *)

\* s.startswith(p)
StartsWith(s, p) == Len(s) >= Len(p) /\ SubSeq(s, 1, Len(p)) = p

\* p in s
Contains(s, p) ==
    \E i \in 1..(Len(s) - Len(p) + 1) : SubSeq(s, i, i + Len(p) - 1) = p

\* s.endswith(p)
EndsWith(s, p) ==
    Len(s) >= Len(p) /\ SubSeq(s, Len(s) - Len(p) + 1, Len(s)) = p

UpperToLower ==
    [A |-> "a", B |-> "b", C |-> "c", D |-> "d", E |-> "e", F |-> "f",
     G |-> "g", H |-> "h", I |-> "i", J |-> "j", K |-> "k", L |-> "l",
     M |-> "m", N |-> "n", O |-> "o", P |-> "p", Q |-> "q", R |-> "r",
     S |-> "s", T |-> "t", U |-> "u", V |-> "v", W |-> "w", X |-> "x",
     Y |-> "y", Z |-> "z"]

\* the case folding re.IGNORECASE applies to the subject string
Lower(s) ==
    [i \in 1..Len(s) |->
        IF s[i] \in DOMAIN UpperToLower THEN UpperToLower[s[i]] ELSE s[i]]

Digit == <<"0", "1", "2", "3", "4", "5", "6", "7", "8", "9">>

RECURSIVE str(_)
\* str(n) of a non-negative integer
str(n) == IF n < 10 THEN <<Digit[n + 1]>>
          ELSE str(n \div 10) \o <<Digit[(n % 10) + 1]>>

Whitespace == {" ", "\t", "\n", "\r"}

-----------------------------------------------------------------------------
(* The regular expressions, lines 8-12.                                    *)

\* the schemes the two protocol patterns name
Scheme ==
    [javascript |->
        <<"j", "a", "v", "a", "s", "c", "r", "i", "p", "t", ":">>,
     vbscript |-> <<"v", "b", "s", "c", "r", "i", "p", "t", ":">>,
     file |-> <<"f", "i", "l", "e", ":">>,
     data |-> <<"d", "a", "t", "a", ":">>,
     data_image |->
        <<"d", "a", "t", "a", ":", "i", "m", "a", "g", "e", "/">>,
     png |-> <<"p", "n", "g">>,
     gif |-> <<"g", "i", "f">>,
     jpeg |-> <<"j", "p", "e", "g">>,
     webp |-> <<"w", "e", "b", "p">>]

\* re.search(reUnsafeProtocol, url): in '^javascript:|vbscript:|file:|data:' the
\* anchor belongs to the first alternative only; the other three match anywhere.
reUnsafeProtocol(url) ==
    \/ StartsWith(Lower(url), Scheme.javascript)
    \/ Contains(Lower(url), Scheme.vbscript)
    \/ Contains(Lower(url), Scheme.file)
    \/ Contains(Lower(url), Scheme.data)

\* re.search(reSafeDataProtocol, url): '^data:image\/(?:png|gif|jpeg|webp)'
reSafeDataProtocol(url) ==
    \E ext \in {Scheme.png, Scheme.gif, Scheme.jpeg, Scheme.webp} :
        StartsWith(Lower(url), Scheme.data_image \o ext)

\* the index of the first '>' of s, 0 if there is none
FirstGt(s) ==
    IF \E i \in 1..Len(s) : s[i] = ">"
    THEN CHOOSE i \in 1..Len(s) : s[i] = ">" /\ \A j \in 1..(i - 1) : s[j] # ">"
    ELSE 0

RECURSIVE reHtmlTagSub(_)
\* re.sub(reHtmlTag, '', s) with reHtmlTag = '<[^>]*>': leftmost matches, each
\* from a '<' to the first '>' after it
reHtmlTagSub(s) ==
    IF s = <<>> THEN <<>>
    ELSE IF Head(s) = "<" /\ FirstGt(Tail(s)) > 0
         THEN reHtmlTagSub(SubSeq(Tail(s), FirstGt(Tail(s)) + 1, Len(Tail(s))))
         ELSE <<Head(s)>> \o reHtmlTagSub(Tail(s))

\* re.search(reHtmlTag, s): s holds a tag-shaped substring
reHtmlTagSearch(s) ==
    \E i \in 1..Len(s) : s[i] = "<" /\ \E j \in (i + 1)..Len(s) : s[j] = ">"

RECURSIVE reSplitWs(_, _)
\* re.split(r'\s+', s), cur being the piece collected so far: every maximal run
\* of whitespace separates two pieces, so a leading run gives a first piece ''
reSplitWs(s, cur) ==
    IF s = <<>> THEN <<cur>>
    ELSE IF Head(s) \in Whitespace
         THEN IF Tail(s) # <<>> /\ Head(Tail(s)) \in Whitespace
              THEN reSplitWs(Tail(s), cur)
              ELSE <<cur>> \o reSplitWs(Tail(s), <<>>)
         ELSE reSplitWs(Tail(s), cur \o <<Head(s)>>)

-----------------------------------------------------------------------------
(* CommonMark.common.escape_xml, imported at line 5.                       *)

\* the entities escape_xml writes
Entity ==
    [amp |-> <<"&", "a", "m", "p", ";">>,
     lt |-> <<"&", "l", "t", ";">>,
     gt |-> <<"&", "g", "t", ";">>,
     quot |-> <<"&", "q", "u", "o", "t", ";">>]

RECURSIVE escape_xml(_, _)
\* '&', '<' and '>' become entities; '"' too when quotes is set
escape_xml(s, quotes) ==
    IF s = <<>> THEN <<>>
    ELSE (CASE Head(s) = "&" -> Entity.amp
            [] Head(s) = "<" -> Entity.lt
            [] Head(s) = ">" -> Entity.gt
            [] Head(s) = "\"" /\ quotes -> Entity.quot
            [] OTHER -> <<Head(s)>>) \o escape_xml(Tail(s), quotes)

-----------------------------------------------------------------------------
(* tag, lines 15-24.                                                       *)

RECURSIVE tagAttrs(_)
\* the loop of lines 18-19: ' name="value"' for each attribute
tagAttrs(attrs) ==
    IF attrs = <<>> THEN <<>>
    ELSE <<" ">> \o Head(attrs)[1] \o <<"=", "\"">> \o Head(attrs)[2]
         \o <<"\"">> \o tagAttrs(Tail(attrs))

tag(name, attrs, selfclosing) ==
    <<"<">> \o name \o tagAttrs(attrs)
    \o (IF selfclosing THEN <<" ", "/">> ELSE <<>>) \o <<">">>

\* potentially_unsafe, lines 27-29
potentially_unsafe(url) == reUnsafeProtocol(url) /\ ~reSafeDataProtocol(url)

-----------------------------------------------------------------------------
(* Python values the renderer reads.                                       *)

\* None, where a node is expected (the parent of a root)
NoneNode == [t |-> "None"]

\* bool(v) of an option value, written as its Python literal
truthy(v) == v \notin {"None", "False", "0", "''"}

\* options.get(key): None when the key is absent
get(options, key) == IF key \in DOMAIN options THEN options[key] ELSE "None"

\* the twenty render* handlers of the class, lines 81-239
NodeTypes ==
    {"Text", "Softbreak", "Hardbreak", "Emph", "Strong", "HtmlInline",
     "CustomInline", "Link", "Image", "Code", "Document", "Paragraph",
     "BlockQuote", "Item", "List", "Heading", "CodeBlock", "HtmlBlock",
     "CustomBlock", "ThematicBreak"}

\* hasattr(self, 'render' + t): the handlers, renderNodes (line 53) and its
\* alias render (line 241)
hasRenderAttr(t) == t \in NodeTypes \cup {"Nodes", ""}

-----------------------------------------------------------------------------
(* The output buffer, lines 41-51.  self is the instance's fields.         *)

\* out without the test of line 42: the text is appended as it is
out_noStrip(self, s) == [self EXCEPT !.buf = @ \o s, !.last_out = s]

\* out with = for the += of lines 43 and 45: the text replaces the buffer
out_overwrite(self, s) ==
    [self EXCEPT
        !.buf = IF self.disable_tags > 0 THEN reHtmlTagSub(s) ELSE s,
        !.last_out = s]

out(self, s) ==
    [self EXCEPT
        !.buf = IF self.disable_tags > 0 THEN @ \o reHtmlTagSub(s) ELSE @ \o s,
        !.last_out = s]

\* cr without line 51: the newline is not recorded as the last output
cr_noRecord(self) ==
    IF self.last_out # <<"\n">> THEN [self EXCEPT !.buf = @ \o <<"\n">>]
    ELSE self

\* cr without line 50: the newline is recorded and not appended
cr_noAppend(self) ==
    IF self.last_out # <<"\n">> THEN [self EXCEPT !.last_out = <<"\n">>]
    ELSE self

cr(self) ==
    IF self.last_out # <<"\n">>
    THEN [self EXCEPT !.buf = @ \o <<"\n">>, !.last_out = <<"\n">>]
    ELSE self

-----------------------------------------------------------------------------
(* The handlers, lines 81-239.  Each gives the instance's fields after the *)
(* call; attrs is the event's attribute list (line 64).                    *)

\* the tag and attribute names of the handlers
Name ==
    [br |-> <<"b", "r">>,
     em |-> <<"e", "m">>,
     strong |-> <<"s", "t", "r", "o", "n", "g">>,
     a |-> <<"a">>,
     href |-> <<"h", "r", "e", "f">>,
     title |-> <<"t", "i", "t", "l", "e">>,
     code |-> <<"c", "o", "d", "e">>,
     pre |-> <<"p", "r", "e">>,
     p |-> <<"p">>,
     blockquote |-> <<"b", "l", "o", "c", "k", "q", "u", "o", "t", "e">>,
     li |-> <<"l", "i">>,
     ul |-> <<"u", "l">>,
     ol |-> <<"o", "l">>,
     h |-> <<"h">>,
     hr |-> <<"h", "r">>,
     start |-> <<"s", "t", "a", "r", "t">>,
     class |-> <<"c", "l", "a", "s", "s">>,
     language |-> <<"l", "a", "n", "g", "u", "a", "g", "e", "-">>]

\* the text the handlers emit that tag() does not build
Markup ==
    [omitted |->
        <<"<", "!", "-", "-", " ", "r", "a", "w", " ", "H", "T", "M", "L", " ", "o", "m", "i", "t", "t", "e", "d", " ", "-", "-", ">">>,
     img_src |-> <<"<", "i", "m", "g", " ", "s", "r", "c", "=", "\"">>,
     alt |-> <<"\"", " ", "a", "l", "t", "=", "\"">>,
     img_title |-> <<"\"", " ", "t", "i", "t", "l", "e", "=", "\"">>,
     img_end |-> <<"\"", " ", "/", ">">>]

\* '/' + name
closing(name) == <<"/">> \o name

renderText(self, node, attrs, entering) ==
    out(self, escape_xml(node.literal, FALSE))

renderSoftbreak(self, node, attrs, entering) ==
    out(self, self.softbreak)

renderHardbreak(self, node, attrs, entering) ==
    cr(out(self, tag(Name.br, <<>>, TRUE)))

renderEmph(self, node, attrs, entering) ==
    out(self, tag(IF entering THEN Name.em ELSE closing(Name.em), <<>>, FALSE))

renderStrong(self, node, attrs, entering) ==
    out(self, tag(IF entering THEN Name.strong ELSE closing(Name.strong), <<>>, FALSE))

\* renderHtmlInline without the test of line 98: the literal whatever the options
renderHtmlInline_raw(self, node, attrs, entering) == out(self, node.literal)

renderHtmlInline(self, node, attrs, entering) ==
    IF truthy(get(self.options, "safe"))
    THEN out(self, Markup.omitted)
    ELSE out(self, node.literal)

renderCustomInline(self, node, attrs, entering) ==
    IF entering /\ node.on_enter # <<>> THEN out(self, node.on_enter)
    ELSE IF ~entering /\ node.on_exit # <<>> THEN out(self, node.on_exit)
    ELSE self

\* the attribute list renderLink passes to tag, lines 111-118
linkAttrs(self, node, attrs) ==
    attrs
    \o (IF ~(truthy(get(self.options, "safe"))
             /\ potentially_unsafe(node.destination))
        THEN << <<Name.href, escape_xml(node.destination, TRUE)>> >>
        ELSE <<>>)
    \o (IF node.title # <<>>
        THEN << <<Name.title, escape_xml(node.title, TRUE)>> >>
        ELSE <<>>)

\* renderLink without the test of lines 111-112: href whatever the destination
renderLink_alwaysHref(self, node, attrs, entering) ==
    IF entering
    THEN out(self, tag(Name.a, attrs
                            \o << <<Name.href, escape_xml(node.destination, TRUE)>> >>
                            \o (IF node.title # <<>>
                                THEN << <<Name.title, escape_xml(node.title, TRUE)>> >>
                                ELSE <<>>), FALSE))
    ELSE out(self, tag(closing(Name.a), <<>>, FALSE))

renderLink(self, node, attrs, entering) ==
    IF entering
    THEN out(self, tag(Name.a, linkAttrs(self, node, attrs), FALSE))
    ELSE out(self, tag(closing(Name.a), <<>>, FALSE))

\* the text renderImage emits on an Image's entering event, lines 126-132
\* imagePrefix without the test of lines 126-127: src whatever the destination
imagePrefix_unfiltered(self, node) ==
    Markup.img_src \o escape_xml(node.destination, TRUE) \o Markup.alt

imagePrefix(self, node) ==
    IF truthy(get(self.options, "safe")) /\ potentially_unsafe(node.destination)
    THEN Markup.img_src \o Markup.alt
    ELSE Markup.img_src \o escape_xml(node.destination, TRUE) \o Markup.alt

\* renderImage with line 133 inside the test of line 125: an Image entered
\* inside an Image is not counted
renderImage_countOuter(self, node, attrs, entering) ==
    IF entering
    THEN IF self.disable_tags = 0
         THEN [out(self, imagePrefix(self, node)) EXCEPT !.disable_tags = @ + 1]
         ELSE self
    ELSE LET s1 == [self EXCEPT !.disable_tags = @ - 1]
         IN  IF s1.disable_tags = 0
             THEN LET s2 == IF node.title # <<>>
                            THEN out(s1, Markup.img_title
                                         \o escape_xml(node.title, TRUE))
                            ELSE s1
                  IN  out(s2, Markup.img_end)
             ELSE s1

\* renderImage with the counter clamped at 0 on line 135
renderImage_clamped(self, node, attrs, entering) ==
    IF entering
    THEN LET s1 == IF self.disable_tags = 0
                   THEN out(self, imagePrefix(self, node))
                   ELSE self
         IN  [s1 EXCEPT !.disable_tags = @ + 1]
    ELSE LET s1 == [self EXCEPT !.disable_tags = IF @ > 0 THEN @ - 1 ELSE 0]
         IN  IF s1.disable_tags = 0
             THEN LET s2 == IF node.title # <<>>
                            THEN out(s1, Markup.img_title
                                         \o escape_xml(node.title, TRUE))
                            ELSE s1
                  IN  out(s2, Markup.img_end)
             ELSE s1

renderImage(self, node, attrs, entering) ==
    IF entering
    THEN LET s1 == IF self.disable_tags = 0
                   THEN out(self, imagePrefix(self, node))
                   ELSE self
         IN  [s1 EXCEPT !.disable_tags = @ + 1]
    ELSE LET s1 == [self EXCEPT !.disable_tags = @ - 1]
         IN  IF s1.disable_tags = 0
             THEN LET s2 == IF node.title # <<>>
                            THEN out(s1, Markup.img_title
                                         \o escape_xml(node.title, TRUE))
                            ELSE s1
                  IN  out(s2, Markup.img_end)
             ELSE s1

renderCode(self, node, attrs, entering) ==
    out(self, tag(Name.code, <<>>, FALSE) \o escape_xml(node.literal, FALSE)
              \o tag(closing(Name.code), <<>>, FALSE))

renderDocument(self, node, attrs, entering) == self

\* line 152 reads node.parent.parent: an AttributeError when node.parent is None
renderParagraphRaises(node) == node.parent = NoneNode

\* the test of lines 153-155
inTightList(node) ==
    LET grandparent == node.parent.parent
    IN  /\ grandparent # NoneNode
        /\ grandparent.t = "List"
        /\ truthy(get(grandparent.list_data, "tight"))

\* renderParagraph without the tight-list test: every paragraph is wrapped
renderParagraph_wrapAll(self, node, attrs, entering) ==
    IF entering
    THEN out(cr(self), tag(Name.p, attrs, FALSE))
    ELSE cr(out(self, tag(closing(Name.p), <<>>, FALSE)))

renderParagraph(self, node, attrs, entering) ==
    IF inTightList(node) THEN self
    ELSE IF entering
         THEN out(cr(self), tag(Name.p, attrs, FALSE))
         ELSE cr(out(self, tag(closing(Name.p), <<>>, FALSE)))

renderBlockQuote(self, node, attrs, entering) ==
    IF entering
    THEN cr(out(cr(self), tag(Name.blockquote, attrs, FALSE)))
    ELSE cr(out(cr(self), tag(closing(Name.blockquote), <<>>, FALSE)))

renderItem(self, node, attrs, entering) ==
    IF entering
    THEN out(self, tag(Name.li, attrs, FALSE))
    ELSE cr(out(self, tag(closing(Name.li), <<>>, FALSE)))

\* the attribute list renderList passes to tag, lines 185-190
listAttrs(node, attrs) ==
    IF "start" \in DOMAIN node.list_data /\ node.list_data.start # 1
    THEN attrs \o << <<Name.start, str(node.list_data.start)>> >>
    ELSE attrs

renderList(self, node, attrs, entering) ==
    LET tagname == IF node.list_data.type = "Bullet" THEN Name.ul ELSE Name.ol
    IN  IF entering
        THEN cr(out(cr(self), tag(tagname, listAttrs(node, attrs), FALSE)))
        ELSE cr(out(cr(self), tag(closing(tagname), <<>>, FALSE)))

\* renderHeading without the cr() of line 206
renderHeading_noExitCr(self, node, attrs, entering) ==
    LET tagname == Name.h \o str(node.level)
    IN  IF entering
        THEN out(cr(self), tag(tagname, attrs, FALSE))
        ELSE out(self, tag(closing(tagname), <<>>, FALSE))

renderHeading(self, node, attrs, entering) ==
    LET tagname == Name.h \o str(node.level)
    IN  IF entering
        THEN out(cr(self), tag(tagname, attrs, FALSE))
        ELSE cr(out(self, tag(closing(tagname), <<>>, FALSE)))

\* the attribute list renderCodeBlock passes to tag, lines 209-214
codeBlockAttrs(node, attrs) ==
    LET info_words == IF node.info # <<>> THEN reSplitWs(node.info, <<>>)
                      ELSE <<>>
    IN  IF Len(info_words) > 0 /\ Len(info_words[1]) > 0
        THEN attrs \o << <<Name.class,
                           Name.language \o escape_xml(info_words[1], TRUE)>> >>
        ELSE attrs

renderCodeBlock(self, node, attrs, entering) ==
    LET s1 == out(cr(self), tag(Name.pre, <<>>, FALSE)
                            \o tag(Name.code, codeBlockAttrs(node, attrs), FALSE))
        s2 == out(s1, escape_xml(node.literal, FALSE))
        s3 == out(s2, tag(closing(Name.code), <<>>, FALSE)
                      \o tag(closing(Name.pre), <<>>, FALSE))
    IN  cr(s3)

\* the fields as renderHtmlBlock has them after lines 222-225, before its cr()
htmlBlockOut(self, node) ==
    IF truthy(get(self.options, "safe"))
    THEN out(self, Markup.omitted)
    ELSE out(self, node.literal)

renderHtmlBlock(self, node, attrs, entering) == cr(htmlBlockOut(self, node))

renderCustomBlock(self, node, attrs, entering) ==
    LET s1 == cr(self)
        s2 == IF entering /\ node.on_enter # <<>> THEN out(s1, node.on_enter)
              ELSE IF ~entering /\ node.on_exit # <<>> THEN out(s1, node.on_exit)
              ELSE s1
    IN  cr(s2)

renderThematicBreak(self, node, attrs, entering) ==
    cr(out(cr(self), tag(Name.hr, attrs, TRUE)))

-----------------------------------------------------------------------------
(* renderNodes, lines 53-79.                                               *)

\* lines 55-57: the fields every render call sets before its first event
\* renderNodesInit without line 57: disable_tags is left as the last call left it
renderNodesInit_keepDepth(self) ==
    [self EXCEPT !.buf = <<>>, !.last_out = <<"\n">>]

renderNodesInit(self) ==
    [self EXCEPT !.buf = <<>>, !.last_out = <<"\n">>, !.disable_tags = 0]

\* line 77: the handler getattr found, called with (event, node, attrs, entering)
render_fn(self, node, attrs, entering) ==
    CASE node.t = "Text" -> renderText(self, node, attrs, entering)
      [] node.t = "Softbreak" -> renderSoftbreak(self, node, attrs, entering)
      [] node.t = "Hardbreak" -> renderHardbreak(self, node, attrs, entering)
      [] node.t = "Emph" -> renderEmph(self, node, attrs, entering)
      [] node.t = "Strong" -> renderStrong(self, node, attrs, entering)
      [] node.t = "HtmlInline" -> renderHtmlInline(self, node, attrs, entering)
      [] node.t = "CustomInline" -> renderCustomInline(self, node, attrs, entering)
      [] node.t = "Link" -> renderLink(self, node, attrs, entering)
      [] node.t = "Image" -> renderImage(self, node, attrs, entering)
      [] node.t = "Code" -> renderCode(self, node, attrs, entering)
      [] node.t = "Document" -> renderDocument(self, node, attrs, entering)
      [] node.t = "Paragraph" -> renderParagraph(self, node, attrs, entering)
      [] node.t = "BlockQuote" -> renderBlockQuote(self, node, attrs, entering)
      [] node.t = "Item" -> renderItem(self, node, attrs, entering)
      [] node.t = "List" -> renderList(self, node, attrs, entering)
      [] node.t = "Heading" -> renderHeading(self, node, attrs, entering)
      [] node.t = "CodeBlock" -> renderCodeBlock(self, node, attrs, entering)
      [] node.t = "HtmlBlock" -> renderHtmlBlock(self, node, attrs, entering)
      [] node.t = "CustomBlock" -> renderCustomBlock(self, node, attrs, entering)
      [] node.t = "ThematicBreak" -> renderThematicBreak(self, node, attrs, entering)

\* no exception
NoExc == [type |-> "", arg |-> ""]

\* lines 65-71: with the sourcepos option set and a position on the node the
\* code calls attrs.push, and a Python list has no attribute 'push'
sourceposRaises(self, node) ==
    truthy(get(self.options, "sourcepos")) /\ node.sourcepos # <<>>

\* the exception one pass of the loop body (lines 61-77) raises on event, if any
loopBodyExc(self, event) ==
    LET node == event.node
    IN  IF sourceposRaises(self, node)
        THEN [type |-> "AttributeError", arg |-> "push"]
        ELSE IF ~hasRenderAttr(node.t)
        THEN [type |-> "ValueError", arg |-> node.t]       \* line 76
        ELSE IF node.t \in {"Nodes", ""}
        THEN [type |-> "TypeError", arg |-> node.t]        \* renderNodes(block)
        ELSE IF node.t = "Paragraph" /\ renderParagraphRaises(node)
        THEN [type |-> "AttributeError", arg |-> "parent"]
        ELSE NoExc

\* the instance's fields after one pass of the loop body on event; attrs is the
\* empty list of line 64, nothing having been added to it when a handler runs
loopBody(self, event) ==
    IF loopBodyExc(self, event) # NoExc THEN self
    ELSE render_fn(self, event.node, <<>>, event.entering)

RECURSIVE renderEvents(_, _)
\* the loop of lines 60-78 over the events a walker yields, up to the first
\* exception
renderEvents(self, events) ==
    IF events = <<>> \/ loopBodyExc(self, Head(events)) # NoExc THEN self
    ELSE renderEvents(loopBody(self, Head(events)), Tail(events))

\* renderNodes on a walker yielding events: the string it returns (when no
\* event raises)
renderNodes(self, events) == renderEvents(renderNodesInit(self), events).buf

-----------------------------------------------------------------------------
(* The walker (block.walker(), lines 54, 59 and 78) and the documents.     *)

\* the node types the walker enters and exits; the others get one event
Containers ==
    {"Document", "BlockQuote", "List", "Item", "Paragraph", "Heading", "Emph",
     "Strong", "Link", "Image", "CustomInline", "CustomBlock"}

BlockTypes ==
    {"Paragraph", "BlockQuote", "List", "Heading", "CodeBlock", "HtmlBlock",
     "CustomBlock", "ThematicBreak"}

InlineTypes ==
    {"Text", "Softbreak", "Hardbreak", "Emph", "Strong", "HtmlInline",
     "CustomInline", "Link", "Image", "Code"}

\* the trees a parser builds: what a node of type p may hold; a node of a type
\* the renderer does not know may stand anywhere
childOK(p, t) ==
    \/ t \notin NodeTypes
    \/ p \in {"Document", "BlockQuote", "Item", "CustomBlock"} /\ t \in BlockTypes
    \/ p = "List" /\ t = "Item"
    \/ /\ p \in {"Paragraph", "Heading", "Emph", "Strong", "Link", "Image",
                 "CustomInline"}
       /\ t \in InlineTypes

\* the renderers and the render calls; the calls made one after another are
\* call 1, on instance 1, and SpecConc runs call 2 beside it
Instances == {1, 2}
Calls == {1, 2}

\* a render call not yet made; prev is how the caller's call before this one
\* ended and the disable_tags it left on the instance
IdleCall ==
    [pc |-> "idle", self |-> 1, cur |-> NoneNode, started |-> FALSE,
     done |-> FALSE, events |-> <<>>, nodes |-> 0, ncalls |-> 0,
     result |-> <<>>, exc |-> NoExc,
     prev |-> [pc |-> "idle", disable_tags |-> 0]]

-----------------------------------------------------------------------------
(* The actions.  c is a render call; P gives the documents the walker may  *)
(* yield: P.pool, the nodes a document is built from, P.maxNodes, the      *)
(* nodes of one document, and P.maxCalls, the calls made one after another.*)

\* render(block) is called: lines 54-57
Begin(c, P) ==
    /\ calls[c].pc \in {"idle", "returned", "raised"}
    /\ calls[c].ncalls < P.maxCalls
    /\ rs' = [rs EXCEPT ![calls[c].self] = renderNodesInit(@)]
    /\ calls' = [calls EXCEPT ![c] =
                    [IdleCall EXCEPT
                        !.pc = "loop", !.self = calls[c].self,
                        !.ncalls = calls[c].ncalls + 1,
                        !.prev = [pc |-> calls[c].pc,
                                  disable_tags |->
                                      rs[calls[c].self].disable_tags]]]

\* one pass of the loop, lines 60-78: the walker has yielded event, and is left
\* with cur as its innermost open node (done: nothing is left to yield)
\* Dispatch with buf, last_out and disable_tags kept in one place for every
\* instance (module globals): each pass runs on the fields of instance 1
Dispatch_global(c, event, cur, done) ==
    LET exc == loopBodyExc(rs[1], event)
    IN  /\ rs' = [rs EXCEPT ![1] = loopBody(@, event)]
        /\ calls' = [calls EXCEPT ![c] =
                        [@ EXCEPT !.pc = IF exc # NoExc THEN "raised" ELSE "loop",
                                  !.exc = exc,
                                  !.events = Append(@, event),
                                  !.nodes = IF event.entering THEN @ + 1 ELSE @,
                                  !.started = TRUE,
                                  !.cur = cur,
                                  !.done = done]]

Dispatch(c, event, cur, done) ==
    LET i == calls[c].self
        exc == loopBodyExc(rs[i], event)
    IN  /\ rs' = [rs EXCEPT ![i] = loopBody(@, event)]
        /\ calls' = [calls EXCEPT ![c] =
                        [@ EXCEPT !.pc = IF exc # NoExc THEN "raised" ELSE "loop",
                                  !.exc = exc,
                                  !.events = Append(@, event),
                                  !.nodes = IF event.entering THEN @ + 1 ELSE @,
                                  !.started = TRUE,
                                  !.cur = cur,
                                  !.done = done]]

\* the walker may yield an entering event for node n
canVisit(c, n, P) ==
    /\ calls[c].pc = "loop"
    /\ ~calls[c].done
    /\ calls[c].nodes < P.maxNodes
    /\ IF calls[c].cur = NoneNode THEN ~calls[c].started
       ELSE childOK(calls[c].cur.t, n.t)

\* the entering event of a container node n, a child of the open node
Enter(c, n, P) ==
    /\ canVisit(c, n, P)
    /\ n.t \in Containers
    /\ LET node == [n EXCEPT !.parent = calls[c].cur]
       IN  Dispatch(c, [entering |-> TRUE, node |-> node], node, FALSE)

\* the one event of a node n that holds no children
Leaf(c, n, P) ==
    /\ canVisit(c, n, P)
    /\ n.t \notin Containers
    /\ LET node == [n EXCEPT !.parent = calls[c].cur]
       IN  Dispatch(c, [entering |-> TRUE, node |-> node], calls[c].cur,
                    calls[c].cur = NoneNode)

\* the exiting event of the open node, of type t
Exit(c, t) ==
    /\ calls[c].pc = "loop"
    /\ ~calls[c].done
    /\ calls[c].cur # NoneNode
    /\ calls[c].cur.t = t
    /\ Dispatch(c, [entering |-> FALSE, node |-> calls[c].cur],
                calls[c].cur.parent, calls[c].cur.parent = NoneNode)

RECURSIVE StrayExits(_, _)
\* the exiting events among events that match no entering event: those whose
\* node is not the innermost of the nodes open, entered and not yet exited
StrayExits(events, open) ==
    IF events = <<>> THEN 0
    ELSE LET e == Head(events)
         IN  IF e.entering
             THEN StrayExits(Tail(events),
                             IF e.node.t \in Containers THEN <<e.node>> \o open
                             ELSE open)
             ELSE IF open # <<>> /\ Head(open) = e.node
                  THEN StrayExits(Tail(events), Tail(open))
                  ELSE 1 + StrayExits(Tail(events), open)

\* a malformed walker: the exiting event of a node n it never entered, yielded
\* where a child of the open node may stand
StrayExit(c, n, P) ==
    /\ canVisit(c, n, P)
    /\ n.t \in Containers
    /\ StrayExits(calls[c].events, <<>>) < P.maxStray
    /\ LET node == [n EXCEPT !.parent = calls[c].cur]
       IN  Dispatch(c, [entering |-> FALSE, node |-> node], calls[c].cur,
                    calls[c].cur = NoneNode)

\* the event of a Text node, handled by renderText
DoText(c, P) == \E n \in P.pool : n.t = "Text" /\ Leaf(c, n, P)

\* the event of a Softbreak node, handled by renderSoftbreak
DoSoftbreak(c, P) == \E n \in P.pool : n.t = "Softbreak" /\ Leaf(c, n, P)

\* the event of a Hardbreak node, handled by renderHardbreak
DoHardbreak(c, P) == \E n \in P.pool : n.t = "Hardbreak" /\ Leaf(c, n, P)

\* an event of a Emph node, handled by renderEmph
DoEmph(c, P) ==
    \/ \E n \in P.pool : n.t = "Emph" /\ Enter(c, n, P)
    \/ Exit(c, "Emph")

\* an event of a Strong node, handled by renderStrong
DoStrong(c, P) ==
    \/ \E n \in P.pool : n.t = "Strong" /\ Enter(c, n, P)
    \/ Exit(c, "Strong")

\* the event of a HtmlInline node, handled by renderHtmlInline
DoHtmlInline(c, P) == \E n \in P.pool : n.t = "HtmlInline" /\ Leaf(c, n, P)

\* an event of a CustomInline node, handled by renderCustomInline
DoCustomInline(c, P) ==
    \/ \E n \in P.pool : n.t = "CustomInline" /\ Enter(c, n, P)
    \/ Exit(c, "CustomInline")

\* an event of a Link node, handled by renderLink
DoLink(c, P) ==
    \/ \E n \in P.pool : n.t = "Link" /\ Enter(c, n, P)
    \/ Exit(c, "Link")

\* an event of a Image node, handled by renderImage
DoImage(c, P) ==
    \/ \E n \in P.pool : n.t = "Image" /\ Enter(c, n, P)
    \/ Exit(c, "Image")

\* the exiting event of an Image node never entered, handled by renderImage
DoStrayImageExit(c, P) == \E n \in P.pool : n.t = "Image" /\ StrayExit(c, n, P)

\* the event of a Code node, handled by renderCode
DoCode(c, P) == \E n \in P.pool : n.t = "Code" /\ Leaf(c, n, P)

\* an event of a Document node, handled by renderDocument
DoDocument(c, P) ==
    \/ \E n \in P.pool : n.t = "Document" /\ Enter(c, n, P)
    \/ Exit(c, "Document")

\* an event of a Paragraph node, handled by renderParagraph
DoParagraph(c, P) ==
    \/ \E n \in P.pool : n.t = "Paragraph" /\ Enter(c, n, P)
    \/ Exit(c, "Paragraph")

\* an event of a BlockQuote node, handled by renderBlockQuote
DoBlockQuote(c, P) ==
    \/ \E n \in P.pool : n.t = "BlockQuote" /\ Enter(c, n, P)
    \/ Exit(c, "BlockQuote")

\* an event of a Item node, handled by renderItem
DoItem(c, P) ==
    \/ \E n \in P.pool : n.t = "Item" /\ Enter(c, n, P)
    \/ Exit(c, "Item")

\* an event of a List node, handled by renderList
DoList(c, P) ==
    \/ \E n \in P.pool : n.t = "List" /\ Enter(c, n, P)
    \/ Exit(c, "List")

\* an event of a Heading node, handled by renderHeading
DoHeading(c, P) ==
    \/ \E n \in P.pool : n.t = "Heading" /\ Enter(c, n, P)
    \/ Exit(c, "Heading")

\* the event of a CodeBlock node, handled by renderCodeBlock
DoCodeBlock(c, P) == \E n \in P.pool : n.t = "CodeBlock" /\ Leaf(c, n, P)

\* the event of a HtmlBlock node, handled by renderHtmlBlock
DoHtmlBlock(c, P) == \E n \in P.pool : n.t = "HtmlBlock" /\ Leaf(c, n, P)

\* an event of a CustomBlock node, handled by renderCustomBlock
DoCustomBlock(c, P) ==
    \/ \E n \in P.pool : n.t = "CustomBlock" /\ Enter(c, n, P)
    \/ Exit(c, "CustomBlock")

\* the event of a ThematicBreak node, handled by renderThematicBreak
DoThematicBreak(c, P) == \E n \in P.pool : n.t = "ThematicBreak" /\ Leaf(c, n, P)

\* the event of a node whose type names no handler: line 76, or the call of
\* renderNodes itself with four arguments
DoUnknown(c, P) == \E n \in P.pool : n.t \notin NodeTypes /\ Leaf(c, n, P)

\* the walker yields None: line 79
Return(c) ==
    /\ calls[c].pc = "loop"
    /\ calls[c].done
    /\ calls' = [calls EXCEPT ![c] =
                    [@ EXCEPT !.pc = "returned", !.result = rs[calls[c].self].buf]]
    /\ UNCHANGED rs

-----------------------------------------------------------------------------
(* The nodes documents are built from.  A node's parent is set when the    *)
(* walker reaches it.                                                      *)

\* a position ((1, 1), (1, 5)), as the parser records it
SomePos == << <<1, 1>>, <<1, 5>> >>

node(t) == [t |-> t, parent |-> NoneNode, sourcepos |-> <<>>]
withPos(n) == [n EXCEPT !.sourcepos = SomePos]

Text(literal) == node("Text") @@ [literal |-> literal]
Softbreak == node("Softbreak")
Hardbreak == node("Hardbreak")
Emph == node("Emph")
Strong == node("Strong")
HtmlInline(literal) == node("HtmlInline") @@ [literal |-> literal]
CustomInline(on_enter, on_exit) ==
    node("CustomInline") @@ [on_enter |-> on_enter, on_exit |-> on_exit]
Link(destination, title) ==
    node("Link") @@ [destination |-> destination, title |-> title]
Image(destination, title) ==
    node("Image") @@ [destination |-> destination, title |-> title]
Code(literal) == node("Code") @@ [literal |-> literal]
Document == node("Document")
Paragraph == node("Paragraph")
BlockQuote == node("BlockQuote")
Item == node("Item")
List(list_data) == node("List") @@ [list_data |-> list_data]
Heading(level) == node("Heading") @@ [level |-> level]
CodeBlock(info, literal) ==
    node("CodeBlock") @@ [info |-> info, literal |-> literal]
HtmlBlock(literal) == node("HtmlBlock") @@ [literal |-> literal]
CustomBlock(on_enter, on_exit) ==
    node("CustomBlock") @@ [on_enter |-> on_enter, on_exit |-> on_exit]
ThematicBreak == node("ThematicBreak")

\* list_data of a tight bullet list, a loose one and an ordered list from 3
TightBullet == [type |-> "Bullet", tight |-> "True"]
LooseBullet == [type |-> "Bullet", tight |-> "False"]
LooseOrdered == [type |-> "Ordered", tight |-> "False", start |-> 3]

\* the strings of the documents: destinations, literals, titles
Str ==
    [url_js |->
        <<"j", "a", "v", "a", "s", "c", "r", "i", "p", "t", ":", "a">>,
     url_alert |->
        <<"j", "a", "v", "a", "s", "c", "r", "i", "p", "t", ":", "a", "l", "e", "r", "t", "(", "1", ")">>,
     url_http |-> <<"h", "t", "t", "p", ":", "/", "/", "a">>,
     one |-> <<"o", "n", "e">>,
     x |-> <<"x">>,
     lt |-> <<"a", "<", "b", ">">>,
     span |-> <<"<", "s", "p", "a", "n", ">">>,
     div |-> <<"<", "d", "i", "v", ">", "\n">>,
     t |-> <<"t", "\"">>,
     py |-> <<"p", "y">>]

\* the configurations of a renderer: the options given to __init__ (line 39)
BoolOptions ==
    {[safe |-> sf, sourcepos |-> sp] : sf \in {"True", "False"},
                                      sp \in {"True", "False"}}

\* the state after HtmlRenderer(options): softbreak and options are set (lines
\* 38-39); buf, last_out and disable_tags do not exist until render sets them,
\* and nothing reads them before
InitWith(optionSet) ==
    /\ \E o \in optionSet :
          rs = [i \in Instances |->
                   [softbreak |-> <<"\n">>, options |-> o, buf |-> <<>>,
                    last_out |-> <<>>, disable_tags |-> 0]]
    /\ calls = [c \in Calls |-> IdleCall]

-----------------------------------------------------------------------------
(* Spec: one document of up to MaxNodes nodes of every type.               *)

All ==
    [pool |->
        {Text(Str.lt), Text(Str.x), Softbreak, Hardbreak, Emph, Strong,
         HtmlInline(Str.span), HtmlInline(Str.lt),
         CustomInline(Str.span, <<>>), CustomInline(<<"<">>, <<">">>),
         Link(Str.url_js, Str.t),
         Link(Str.url_http, <<>>), Image(Str.url_js, Str.t),
         Image(Str.url_http, <<>>), Image(Str.url_alert, <<>>), Code(Str.lt),
         Document, Paragraph, BlockQuote, Item, List(TightBullet),
         List(LooseOrdered), Heading(2), CodeBlock(Str.py, Str.x),
         HtmlBlock(Str.div), CustomBlock(Str.span, Str.x), ThematicBreak,
         withPos(Paragraph), withPos(Link(Str.url_http, <<>>)),
         withPos(ThematicBreak), withPos(Text(Str.x)),
         node("Nodes"), node(""), node("Table")},
     maxNodes |-> MaxNodes, maxCalls |-> 1]

Init == InitWith(BoolOptions)

Next ==
    \/ Begin(1, All)
    \/ DoText(1, All)
    \/ DoSoftbreak(1, All)
    \/ DoHardbreak(1, All)
    \/ DoEmph(1, All)
    \/ DoStrong(1, All)
    \/ DoHtmlInline(1, All)
    \/ DoCustomInline(1, All)
    \/ DoLink(1, All)
    \/ DoImage(1, All)
    \/ DoCode(1, All)
    \/ DoDocument(1, All)
    \/ DoParagraph(1, All)
    \/ DoBlockQuote(1, All)
    \/ DoItem(1, All)
    \/ DoList(1, All)
    \/ DoHeading(1, All)
    \/ DoCodeBlock(1, All)
    \/ DoHtmlBlock(1, All)
    \/ DoCustomBlock(1, All)
    \/ DoThematicBreak(1, All)
    \/ DoUnknown(1, All)
    \/ Return(1)

Spec == Init /\ [][Next]_vars

\* a call that has begun runs on: the loop of lines 60-78 takes its next pass,
\* or line 79 returns
SpecLive == Spec /\ WF_vars(Next)

-----------------------------------------------------------------------------
(* SpecTight: documents of lists, items, block quotes and paragraphs,      *)
(* rendered by HtmlRenderer().                                             *)

\* options = {} (the default of line 34)
NoOptions == << >>

Tight ==
    [pool |->
        {Document, List(TightBullet), List(LooseBullet), Item, BlockQuote,
        Paragraph, Text(Str.one)},
     maxNodes |-> MaxTightNodes, maxCalls |-> 1]

InitTight == InitWith({NoOptions})

NextTight ==
    \/ Begin(1, Tight)
    \/ DoDocument(1, Tight)
    \/ DoList(1, Tight)
    \/ DoItem(1, Tight)
    \/ DoBlockQuote(1, Tight)
    \/ DoParagraph(1, Tight)
    \/ DoText(1, Tight)
    \/ Return(1)

SpecTight == InitTight /\ [][NextTight]_vars

-----------------------------------------------------------------------------
(* SpecUrl: one link or image, over destinations with and without the      *)
(* schemes of reUnsafeProtocol and reSafeDataProtocol, in front or inside. *)

UrlPrefixes == {<<>>, <<"x">>, <<"h", "t", "t", "p", ":", "/", "/", "x", "/", "?">>}

UrlSchemes ==
    {<<"j", "a", "v", "a", "s", "c", "r", "i", "p", "t", ":">>,
     <<"J", "a", "v", "a", "S", "c", "r", "i", "p", "t", ":">>,
     <<"v", "b", "s", "c", "r", "i", "p", "t", ":">>,
     <<"V", "B", "S", "c", "r", "i", "p", "t", ":">>,
     <<"f", "i", "l", "e", ":">>,
     <<"F", "I", "L", "E", ":">>,
     <<"d", "a", "t", "a", ":">>,
     <<"d", "a", "t", "a", ":", "i", "m", "a", "g", "e", "/", "p", "n", "g">>,
     <<"D", "A", "T", "A", ":", "i", "m", "a", "g", "e", "/", "G", "I", "F">>,
     <<"d", "a", "t", "a", ":", "i", "m", "a", "g", "e", "/", "j", "p", "e", "g">>,
     <<"d", "a", "t", "a", ":", "i", "m", "a", "g", "e", "/", "w", "e", "b", "p">>,
     <<"d", "a", "t", "a", ":", "i", "m", "a", "g", "e", "/", "s", "v", "g">>,
     <<"d", "a", "t", "a", ":", "t", "e", "x", "t", "/", "h", "t", "m", "l", ",">>,
     <<"h", "t", "t", "p", ":">>,
     <<"m", "a", "i", "l", "t", "o", ":">>,
     <<>>}

Urls == {p \o sch \o <<"y">> : p \in UrlPrefixes, sch \in UrlSchemes}

Url ==
    [pool |->
        {Link(u, <<>>) : u \in Urls} \cup {Image(u, <<>>) : u \in Urls}
        \cup {Link(Str.url_http, Str.t), Text(Str.x)},
     maxNodes |-> MaxUrlNodes, maxCalls |-> 1]

SafeOptions == {[safe |-> "True"], [safe |-> "False"]}

InitUrl == InitWith(SafeOptions)

NextUrl ==
    \/ Begin(1, Url)
    \/ DoLink(1, Url)
    \/ DoImage(1, Url)
    \/ DoText(1, Url)
    \/ Return(1)

SpecUrl == InitUrl /\ [][NextUrl]_vars

-----------------------------------------------------------------------------
(* SpecAlt: images, and the emphasis, links and text of their alt content. *)

Alt ==
    [pool |-> {Image(Str.url_http, <<>>), Emph, Strong, Link(Str.url_http, Str.t),
               Text(Str.lt)},
     maxNodes |-> MaxAltNodes, maxCalls |-> 1]

InitAlt == InitWith({NoOptions})

NextAlt ==
    \/ Begin(1, Alt)
    \/ DoImage(1, Alt)
    \/ DoEmph(1, Alt)
    \/ DoStrong(1, Alt)
    \/ DoLink(1, Alt)
    \/ DoText(1, Alt)
    \/ Return(1)

SpecAlt == InitAlt /\ [][NextAlt]_vars

-----------------------------------------------------------------------------
(* SpecReuse: up to MaxCalls render calls, one after another, on one       *)
(* instance; a node of an unknown type ends a call with an exception.      *)

Reuse ==
    [pool |-> {Image(Str.url_http, <<>>), Emph, Text(Str.x), node("Table")},
     maxNodes |-> MaxReuseNodes, maxCalls |-> MaxCalls]

InitReuse == InitWith(SafeOptions)

NextReuse ==
    \/ Begin(1, Reuse)
    \/ DoImage(1, Reuse)
    \/ DoEmph(1, Reuse)
    \/ DoText(1, Reuse)
    \/ DoUnknown(1, Reuse)
    \/ Return(1)

SpecReuse == InitReuse /\ [][NextReuse]_vars

-----------------------------------------------------------------------------
(* SpecOptions: renderers constructed with option values that are not      *)
(* booleans and with a key the renderer does not know, rendering raw HTML. *)

\* the nodes of one document of SpecOptions
MaxOptNodes == 3

\* the option values given to __init__, as Python literals: True, False, 1, 0,
\* 'no', ''
OptionValues == {"True", "False", "1", "0", "'no'", "''"}

\* the options given to __init__: line 39 stores whatever it is given
AnyOptions ==
    {NoOptions, [smart |-> "True"]}
    \cup {[safe |-> v] : v \in OptionValues}
    \cup {[safe |-> v, smart |-> "True"] : v \in {"True", "False"}}
    \cup {[sourcepos |-> v] : v \in {"1", "0"}}

Options ==
    [pool |-> {Document, Paragraph, HtmlInline(Str.span), HtmlBlock(Str.div),
               Text(Str.x), withPos(Text(Str.x))},
     maxNodes |-> MaxOptNodes, maxCalls |-> 1]

InitOptions == InitWith(AnyOptions)

NextOptions ==
    \/ Begin(1, Options)
    \/ DoDocument(1, Options)
    \/ DoParagraph(1, Options)
    \/ DoHtmlInline(1, Options)
    \/ DoHtmlBlock(1, Options)
    \/ DoText(1, Options)
    \/ Return(1)

SpecOptions == InitOptions /\ [][NextOptions]_vars

-----------------------------------------------------------------------------
(* SpecConc: two render calls whose loops interleave event by event, on    *)
(* one instance or on an instance each.                                    *)

\* the nodes of one document of SpecConc
MaxConcNodes == 2

Conc ==
    [pool |-> {Emph, Text(Str.x), Text(Str.one)},
     maxNodes |-> MaxConcNodes, maxCalls |-> 1]

\* call 1 is made on instance 1, call 2 on instance 1 or on instance 2
InitConc ==
    /\ rs = [i \in Instances |->
                [softbreak |-> <<"\n">>, options |-> NoOptions, buf |-> <<>>,
                 last_out |-> <<>>, disable_tags |-> 0]]
    /\ \E i \in Instances :
          calls = [c \in Calls |->
                      [IdleCall EXCEPT !.self = IF c = 1 THEN 1 ELSE i]]

NextConc ==
    \E c \in Calls :
        \/ Begin(c, Conc)
        \/ DoEmph(c, Conc)
        \/ DoText(c, Conc)
        \/ Return(c)

SpecConc == InitConc /\ [][NextConc]_vars

-----------------------------------------------------------------------------
(* SpecCode: code blocks over info strings with and without whitespace in  *)
(* front of, between and after their words.                                *)

\* the nodes of one document of SpecCode
MaxCodeNodes == 3

\* node.info: 'py', ' py', 'py x', TAB 'py x', 'py ', 'a"b', ' ', ''
Infos ==
    {<<"p", "y">>, <<" ", "p", "y">>, <<"p", "y", " ", "x">>,
     <<"\t", "p", "y", " ", "x">>, <<"p", "y", " ">>, <<"a", "\"", "b">>,
     <<" ">>, <<>>}

Code_ ==
    [pool |->
        {Document, BlockQuote}
        \cup {CodeBlock(i, l) : i \in Infos,
                                l \in {Str.lt, <<"a", "=", "1", "\n">>}},
     maxNodes |-> MaxCodeNodes, maxCalls |-> 1]

InitCode == InitWith({NoOptions})

NextCode ==
    \/ Begin(1, Code_)
    \/ DoDocument(1, Code_)
    \/ DoBlockQuote(1, Code_)
    \/ DoCodeBlock(1, Code_)
    \/ Return(1)

SpecCode == InitCode /\ [][NextCode]_vars

-----------------------------------------------------------------------------
(* SpecStray: event sequences of a malformed walker, holding exiting       *)
(* events of Image nodes that were never entered.                          *)

\* the nodes of one document of SpecStray
MaxStrayNodes == 3
\* the stray exiting events of one document of SpecStray
MaxStray == 1

Stray ==
    [pool |-> {Emph, Image(Str.url_http, Str.t), Text(Str.x)},
     maxNodes |-> MaxStrayNodes, maxCalls |-> 1, maxStray |-> MaxStray]

InitStray == InitWith({NoOptions})

NextStray ==
    \/ Begin(1, Stray)
    \/ DoEmph(1, Stray)
    \/ DoImage(1, Stray)
    \/ DoStrayImageExit(1, Stray)
    \/ DoText(1, Stray)
    \/ Return(1)

SpecStray == InitStray /\ [][NextStray]_vars

-----------------------------------------------------------------------------
(* SpecBlocks: documents of paragraphs and headings holding text and        *)
(* emphasis.                                                               *)

\* the nodes of one document of SpecBlocks
MaxBlockNodes == 5

Blocks ==
    [pool |-> {Document, Paragraph, Heading(1), Heading(2), Emph,
               Text(<<"H", "i", " ">>), Text(Str.x)},
     maxNodes |-> MaxBlockNodes, maxCalls |-> 1]

InitBlocks == InitWith({NoOptions})

NextBlocks ==
    \/ Begin(1, Blocks)
    \/ DoDocument(1, Blocks)
    \/ DoParagraph(1, Blocks)
    \/ DoHeading(1, Blocks)
    \/ DoEmph(1, Blocks)
    \/ DoText(1, Blocks)
    \/ Return(1)

SpecBlocks == InitBlocks /\ [][NextBlocks]_vars

-----------------------------------------------------------------------------
(* What the claims read.                                                   *)

\* the event call cl dispatched last
LastEvent(cl) == cl.events[Len(cl.events)]

\* this step of call 1 is one pass of the loop on an event of a node of type
\* t, whose handler ran to its end
Handled(t) ==
    /\ calls[1].pc = "loop"
    /\ calls'[1].pc = "loop"
    /\ Len(calls'[1].events) = Len(calls[1].events) + 1
    /\ LastEvent(calls'[1]).node.t = t

\* n as the walker yields it below the node up
under(n, up) == [n EXCEPT !.parent = up]
entering(n) == [entering |-> TRUE, node |-> n]
exiting(n) == [entering |-> FALSE, node |-> n]

-----------------------------------------------------------------------------
(* C1                                                                      *)

\* Document -> List(bullet, tight) -> Item -> Paragraph -> Text("one")
TightDoc ==
    LET d == Document
        l == under(List(TightBullet), d)
        i == under(Item, l)
        p == under(Paragraph, i)
        x == under(Text(Str.one), p)
    IN  <<entering(d), entering(l), entering(i), entering(p), entering(x),
          exiting(p), exiting(i), exiting(l), exiting(d)>>

TightDocHtml == <<"<", "u", "l", ">", "\n", "<", "l", "i", ">", "o", "n", "e", "<", "/", "l", "i", ">", "\n", "<", "/", "u", "l", ">", "\n">>

C1_Step ==
    Handled("Paragraph") =>
        LET e == LastEvent(calls'[1])
            grandparent == e.node.parent.parent
            before == rs[1].buf
            after == rs'[1].buf
            newline == IF rs[1].last_out = <<"\n">> THEN <<>> ELSE <<"\n">>
        IN  IF /\ grandparent # NoneNode
               /\ grandparent.t = "List"
               /\ grandparent.list_data.tight = "True"
            THEN after = before
            ELSE IF e.entering
                 THEN after = before \o newline \o <<"<", "p", ">">>
                 ELSE after = before \o <<"<", "/", "p", ">", "\n">>

C1_Scenario ==
    (calls[1].pc = "returned" /\ calls[1].events = TightDoc)
        => calls[1].result = TightDocHtml

\* C1: a Paragraph whose grandparent is a tight List appends nothing to the
\* buffer on either of its events; any other Paragraph appends a newline (unless
\* the last output was one) and <p> on entering, and </p> and a newline on
\* exiting; so the tight bullet list of one item "one" renders as
\* <ul>\n<li>one</li>\n</ul>\n.
C1_TightList == [][C1_Step]_vars /\ []C1_Scenario

\* the tight list of one item has been rendered: its Paragraph was entered and
\* left inside a tight List
C1_Witness ==
    /\ calls[1].pc = "returned"
    /\ calls[1].events = TightDoc
    /\ calls[1].result = TightDocHtml

-----------------------------------------------------------------------------
(* C2                                                                      *)

\* the safe option of the instance call 1 renders with is on
SafeMode == truthy(get(rs[1].options, "safe"))

\* an href attribute in a tag
HasHref(s) == Contains(s, <<" ", "h", "r", "e", "f", "=", "\"">>)

\* url begins, whatever the case, with one of the four schemes
LeadingUnsafeScheme(url) ==
    \E sch \in {Scheme.javascript, Scheme.vbscript, Scheme.file, Scheme.data} :
        StartsWith(Lower(url), sch)

C2_Step ==
    (Handled("Link") /\ LastEvent(calls'[1]).entering) =>
        LET destination == LastEvent(calls'[1]).node.destination
            emitted == rs'[1].last_out
        IN  /\ StartsWith(emitted, <<"<", "a">>)
            /\ emitted[Len(emitted)] = ">"
            /\ HasHref(emitted)
                 <=> ~(SafeMode /\ potentially_unsafe(destination))
            /\ (SafeMode /\ LeadingUnsafeScheme(destination)
                         /\ ~reSafeDataProtocol(destination))
                 => ~HasHref(emitted)
            /\ ~SafeMode => HasHref(emitted)

\* C2: the <a ...> tag a Link's entering event emits has an href attribute
\* exactly when not (safe is on and potentially_unsafe(destination)); in safe
\* mode a destination with a leading unsafe scheme that is not safe image data
\* gets no href, and with safe off every link gets one.
C2_LinkHref == [][C2_Step]_vars

\* in safe mode a link to javascript:y has been entered, and its tag has no href
C2_Witness ==
    /\ SafeMode
    /\ calls[1].events # <<>>
    /\ LastEvent(calls[1]) = entering(Link(Scheme.javascript \o <<"y">>, <<>>))
    /\ rs[1].last_out = <<"<", "a", ">">>
    /\ rs[1].buf = <<"<", "a", ">">>

-----------------------------------------------------------------------------
(* C3                                                                      *)

\* the newline cr() appends after out(s)
CrAfter(s) == IF s = <<"\n">> THEN <<>> ELSE <<"\n">>

\* C3 as claimed: in safe mode an HtmlInline or HtmlBlock node adds the
\* placeholder to the buffer, and with safe off its literal as it is, whatever
\* the events before it; an HtmlBlock leaves the last output a newline.
C3_Original_Step ==
    /\ Handled("HtmlInline") =>
          rs'[1].buf = rs[1].buf \o (IF SafeMode THEN Markup.omitted
                                     ELSE LastEvent(calls'[1]).node.literal)
    /\ Handled("HtmlBlock") =>
          LET text == IF SafeMode THEN Markup.omitted
                      ELSE LastEvent(calls'[1]).node.literal
          IN  /\ rs'[1].buf = rs[1].buf \o text \o CrAfter(text)
              /\ rs'[1].last_out = <<"\n">>

C3_Original == [][C3_Original_Step]_vars

C3_Step ==
    /\ Handled("HtmlInline") =>
          LET literal == LastEvent(calls'[1]).node.literal
              text == IF SafeMode THEN Markup.omitted ELSE literal
          IN  /\ rs'[1].last_out = text
              /\ rs[1].disable_tags = 0 => rs'[1].buf = rs[1].buf \o text
              /\ (rs[1].disable_tags > 0 /\ SafeMode) => rs'[1].buf = rs[1].buf
              /\ (rs[1].disable_tags > 0 /\ ~SafeMode) =>
                    /\ literal \in {Str.span, Str.lt}
                    /\ literal = Str.span => rs'[1].buf = rs[1].buf
                    /\ literal = Str.lt => rs'[1].buf = rs[1].buf \o <<"a">>
    /\ Handled("HtmlBlock") =>
          LET text == IF SafeMode THEN Markup.omitted
                      ELSE LastEvent(calls'[1]).node.literal
          IN  /\ rs[1].disable_tags = 0
              /\ rs'[1].buf = rs[1].buf \o text \o CrAfter(text)
              /\ rs'[1].last_out = <<"\n">>

\* C3, amended: what the claim says holds of a node outside the alt text of an
\* Image (disable_tags = 0), which every HtmlBlock is.  For an HtmlInline inside
\* alt text the handler hands out() the same text, and out() strips what is
\* tag-shaped of it: in safe mode the placeholder goes whole, so the node adds
\* nothing, and with safe off the literal loses its tags ('<span>' adds
\* nothing, 'a<b>' adds 'a').
C3_RawHtml == [][C3_Step]_vars

\* in safe mode an HtmlInline inside an Image has been handled: the placeholder
\* was handed to out() and the buffer holds the image's prefix alone
C3_Witness ==
    /\ SafeMode
    /\ calls[1].events # <<>>
    /\ LastEvent(calls[1]).node.t = "HtmlInline"
    /\ LastEvent(calls[1]).node.parent.t = "Image"
    /\ rs[1].disable_tags = 1
    /\ rs[1].last_out = Markup.omitted
    /\ ~Contains(rs[1].buf, Markup.omitted)
    /\ EndsWith(rs[1].buf, Markup.alt)

-----------------------------------------------------------------------------
(* C4                                                                      *)

\* the instance's fields after the first k events of call 1
After(k) ==
    renderEvents(renderNodesInit(rs[1]), SubSeq(calls[1].events, 1, k))

\* the entering event of the outermost Image open now: the last event that
\* took disable_tags from 0 to 1
OuterImage ==
    CHOOSE k \in 1..Len(calls[1].events) :
        /\ calls[1].events[k].node.t = "Image"
        /\ calls[1].events[k].entering
        /\ After(k - 1).disable_tags = 0
        /\ \A j \in k..Len(calls[1].events) : After(j).disable_tags > 0

\* what the buffer has gained since that event, past the prefix it wrote
AltText ==
    SubSeq(rs[1].buf, Len(After(OuterImage).buf) + 1, Len(rs[1].buf))

RECURSIVE TextOf(_)
\* the escaped literals of the Text events among events
TextOf(events) ==
    IF events = <<>> THEN <<>>
    ELSE (IF Head(events).node.t = "Text"
          THEN escape_xml(Head(events).node.literal, FALSE)
          ELSE <<>>) \o TextOf(Tail(events))

\* C4: while an Image is open, what the buffer has gained since its prefix
\* holds no tag-shaped substring: it is the escaped text of the Text nodes met
\* since, the tags of the Emph, Strong and Link nodes around them stripped.
C4_AltFlattened ==
    (calls[1].pc = "loop" /\ rs[1].disable_tags > 0) =>
        /\ ~reHtmlTagSearch(AltText)
        /\ AltText = TextOf(SubSeq(calls[1].events, OuterImage + 1,
                                   Len(calls[1].events)))

\* inside an Image, a Link and an Emph around the text a<b> have been left:
\* the alt text so far is a&lt;b&gt;
C4_Witness ==
    /\ calls[1].pc = "loop"
    /\ rs[1].disable_tags = 1
    /\ calls[1].cur.t = "Image"
    /\ Len(calls[1].events) = 6
    /\ calls[1].events[2].node.t = "Link"
    /\ calls[1].events[3].node.t = "Emph"
    /\ calls[1].events[4].node.t = "Text"
    /\ rs[1].last_out = <<"<", "/", "a", ">">>
    /\ rs[1].buf = <<"<", "i", "m", "g", " ", "s", "r", "c", "=", "\"", "h", "t", "t", "p", ":", "/", "/", "a", "\"", " ", "a", "l", "t", "=", "\"", "a", "&", "l", "t", ";", "b", "&", "g", "t", ";">>

-----------------------------------------------------------------------------
(* C5                                                                      *)

\* Image(destination 'javascript:alert(1)') -> Text('x')
AlertImage ==
    LET i == Image(Str.url_alert, <<>>)
        x == under(Text(Str.x), i)
    IN  <<entering(i), entering(x), exiting(i)>>

AlertImageHtml == <<"<", "i", "m", "g", " ", "s", "r", "c", "=", "\"", "\"", " ", "a", "l", "t", "=", "\"", "x", "\"", " ", "/", ">">>

C5_Step ==
    Handled("Image") =>
        LET e == LastEvent(calls'[1])
            depth == rs[1].disable_tags
            src == IF SafeMode /\ potentially_unsafe(e.node.destination)
                   THEN <<>>
                   ELSE escape_xml(e.node.destination, TRUE)
            title == IF e.node.title # <<>>
                     THEN <<"\"", " ", "t", "i", "t", "l", "e", "=", "\"">> \o escape_xml(e.node.title, TRUE)
                     ELSE <<>>
        IN  IF e.entering
            THEN /\ rs'[1].disable_tags = depth + 1
                 /\ rs'[1].buf =
                        IF depth = 0
                        THEN rs[1].buf \o <<"<", "i", "m", "g", " ", "s", "r", "c", "=", "\"">> \o src
                             \o <<"\"", " ", "a", "l", "t", "=", "\"">>
                        ELSE rs[1].buf
            ELSE /\ rs'[1].disable_tags = depth - 1
                 /\ rs'[1].buf =
                        IF depth = 1
                        THEN rs[1].buf \o title \o <<"\"", " ", "/", ">">>
                        ELSE rs[1].buf

C5_Scenario ==
    (SafeMode /\ calls[1].pc = "returned" /\ calls[1].events = AlertImage)
        => calls[1].result = AlertImageHtml

\* C5: an Image entered at depth 0 writes <img src=" S " alt=" on entering, S
\* empty if safe is on and the destination potentially unsafe and the escaped
\* destination otherwise, and on exiting " title=" and the escaped title, if it
\* has one, then " />; an Image entered at a depth above 0 writes nothing on
\* either event; so in safe mode the image javascript:alert(1) with alt text x
\* renders as <img src="" alt="x" />.
C5_ImageMarkup == [][C5_Step]_vars /\ []C5_Scenario

\* the image of C5 has been rendered in safe mode
C5_Witness ==
    /\ SafeMode
    /\ calls[1].pc = "returned"
    /\ calls[1].events = AlertImage
    /\ calls[1].result = AlertImageHtml

-----------------------------------------------------------------------------
(* C6                                                                      *)

\* C6 as claimed: an event of a node whose type is none of the twenty ends
\* the call with ValueError('Unknown node type ' + t), the buffer as it was.
C6_Claim ==
    [][(/\ calls[1].pc = "loop"
        /\ Len(calls'[1].events) = Len(calls[1].events) + 1
        /\ LastEvent(calls'[1]).node.t \notin NodeTypes
        /\ ~sourceposRaises(rs[1], LastEvent(calls'[1]).node))
       => /\ calls'[1].pc = "raised"
          /\ calls'[1].exc = [type |-> "ValueError",
                              arg |-> LastEvent(calls'[1]).node.t]
          /\ rs'[1] = rs[1]]_vars

-----------------------------------------------------------------------------
(* C7                                                                      *)

\* C7 as claimed: with the sourcepos option on, the event of a node that has
\* a position is handled without an exception, and the opening tag of a
\* Paragraph, a Link or a ThematicBreak carries data-sourcepos="1:1-1:5".
C7_Claim ==
    [][(/\ calls[1].pc = "loop"
        /\ Len(calls'[1].events) = Len(calls[1].events) + 1
        /\ truthy(get(rs[1].options, "sourcepos"))
        /\ LastEvent(calls'[1]).node.sourcepos = SomePos
        /\ LastEvent(calls'[1]).entering)
       => /\ calls'[1].pc = "loop"
          /\ LastEvent(calls'[1]).node.t \in {"Paragraph", "Link", "ThematicBreak"}
               => Contains(rs'[1].buf,
                           <<" ", "d", "a", "t", "a", "-", "s", "o", "u", "r", "c", "e", "p", "o", "s", "=", "\"", "1", ":", "1", "-", "1", ":", "5", "\"">>)]_vars

-----------------------------------------------------------------------------
(* C8                                                                      *)

\* url begins with one of the four schemes and not with data:image/ and one of
\* png, gif, jpeg and webp, whatever the case
LeadingUnsafe(url) ==
    LeadingUnsafeScheme(url) /\ ~reSafeDataProtocol(url)

\* C8 as claimed: potentially_unsafe(url) holds exactly of the urls that begin
\* with an unsafe scheme that is not safe image data; read here of every
\* destination the renderer has handed to it (in safe mode).
C8_Claim ==
    SafeMode =>
        \A k \in 1..Len(calls[1].events) :
            calls[1].events[k].node.t \in {"Link", "Image"} =>
                (potentially_unsafe(calls[1].events[k].node.destination)
                    <=> LeadingUnsafe(calls[1].events[k].node.destination))

-----------------------------------------------------------------------------
(* C9                                                                      *)

\* a renderer just constructed with the configuration of instance 1
Fresh ==
    [softbreak |-> rs[1].softbreak, options |-> rs[1].options, buf |-> <<>>,
     last_out |-> <<>>, disable_tags |-> 0]

\* C9: whatever the calls before it did to the instance, a call that returns
\* returns what a renderer just constructed returns for the same events, and
\* every call starts from buf = '', last_out = '\n', disable_tags = 0.
C9_Reuse ==
    /\ [](calls[1].pc = "returned"
            => calls[1].result = renderNodes(Fresh, calls[1].events))
    /\ [][calls'[1].ncalls # calls[1].ncalls
            => /\ rs'[1].buf = <<>>
               /\ rs'[1].last_out = <<"\n">>
               /\ rs'[1].disable_tags = 0]_vars

\* a later call has returned <em>x</em> on an instance whose call before
\* ended inside an Image: what it left was disable_tags > 0 and a buffer not
\* empty
C9_Witness ==
    /\ calls[1].ncalls > 1
    /\ calls[1].prev.pc = "raised"
    /\ calls[1].prev.disable_tags > 0
    /\ calls[1].pc = "returned"
    /\ calls[1].result = <<"<", "e", "m", ">", "x", "<", "/", "e", "m", ">">>

-----------------------------------------------------------------------------
(* C10                                                                     *)

\* C10: in every state of a render call, calling cr() twice or three times
\* leaves what calling it once leaves, and once it adds at most one newline;
\* and the buffer of a document of lists, items, block quotes and paragraphs,
\* whose handlers call cr() one after the other, never holds two newlines in
\* a row.
C10_CrIdempotent ==
    calls[1].pc # "idle" =>
        /\ cr(cr(rs[1])) = cr(rs[1])
        /\ cr(cr(cr(rs[1]))) = cr(rs[1])
        /\ cr(rs[1]).buf \in {rs[1].buf, rs[1].buf \o <<"\n">>}
        /\ ~Contains(rs[1].buf, <<"\n", "\n">>)

\* a Paragraph and a BlockQuote have been left and a List entered: three
\* handlers have called cr() four times in a row, and one newline stands
\* between the tags
C10_Witness ==
    /\ calls[1].pc = "loop"
    /\ Len(calls[1].events) = 6
    /\ LastEvent(calls[1]).node.t = "List"
    /\ rs[1].buf = <<"<", "b", "l", "o", "c", "k", "q", "u", "o", "t", "e", ">", "\n", "<", "p", ">", "<", "/", "p", ">", "\n", "<", "/", "b", "l", "o", "c", "k", "q", "u", "o", "t", "e", ">", "\n", "<", "u", "l", ">", "\n">>

-----------------------------------------------------------------------------
(* C11                                                                     *)

\* the options the renderer reads: 'safe' and 'sourcepos'
Recognized == {"safe", "sourcepos"}

\* options without the keys the renderer does not read
recognizedOnly(options) ==
    [k \in DOMAIN options \cap Recognized |-> options[k]]

\* C11 as claimed: a renderer whose 'safe' or 'sourcepos' is not a boolean
\* does not exist (its construction was rejected), so no event is handled
\* with such a value consulted: 'sourcepos' on every event (line 65), 'safe'
\* on the events of HtmlInline, HtmlBlock, Link and Image nodes; and a call
\* returns what it returns with the unrecognized keys left out.
C11_Claim ==
    /\ \A k \in 1..Len(calls[1].events) :
          /\ "sourcepos" \in DOMAIN rs[1].options
                => rs[1].options.sourcepos \in {"True", "False"}
          /\ ("safe" \in DOMAIN rs[1].options
              /\ calls[1].events[k].node.t
                    \in {"HtmlInline", "HtmlBlock", "Link", "Image"})
                => rs[1].options.safe \in {"True", "False"}
    /\ calls[1].pc = "returned"
          => calls[1].result
                = renderNodes([Fresh EXCEPT !.options = recognizedOnly(@)],
                              calls[1].events)

-----------------------------------------------------------------------------
(* C12                                                                     *)

\* C12 as claimed: whenever the buffer ends with a newline, cr() leaves it as
\* it is; between the events of a render call, and inside renderHtmlBlock
\* between its out() and its cr() (line 226).
C12_Claim ==
    /\ [](calls[1].pc # "idle"
            => (EndsWith(rs[1].buf, <<"\n">>) => cr(rs[1]).buf = rs[1].buf))
    /\ [][Handled("HtmlBlock")
            => LET mid == htmlBlockOut(rs[1], LastEvent(calls'[1]).node)
               IN  EndsWith(mid.buf, <<"\n">>) => cr(mid).buf = mid.buf]_vars

-----------------------------------------------------------------------------
(* C13                                                                     *)

RECURSIVE OpenImages(_)
\* the Image nodes among n and the nodes above it: those entered and not yet
\* exited when n is the walker's innermost open node
OpenImages(n) ==
    IF n = NoneNode THEN 0
    ELSE (IF n.t = "Image" THEN 1 ELSE 0) + OpenImages(n.parent)

\* this step of call 1 is one pass of the loop on an event
C13_Event ==
    /\ calls[1].pc = "loop"
    /\ Len(calls'[1].events) = Len(calls[1].events) + 1

\* C13: over the events a walker yields, disable_tags is the number of Image
\* nodes entered and not yet exited, so never negative; an Image's entering
\* event adds 1 to it, its exiting event takes 1 from it, an event of any
\* other node leaves it; it is 0 on an Image's exit exactly when no Image is
\* left open, and 0 when render returns.
C13_Depth ==
    /\ [](calls[1].pc # "idle"
            => /\ rs[1].disable_tags = OpenImages(calls[1].cur)
               /\ rs[1].disable_tags >= 0)
    /\ [](calls[1].pc = "returned" => rs[1].disable_tags = 0)
    /\ [][C13_Event
            => LET e == LastEvent(calls'[1])
               IN  /\ (e.node.t = "Image" /\ e.entering)
                        => rs'[1].disable_tags = rs[1].disable_tags + 1
                   /\ (e.node.t = "Image" /\ ~e.entering)
                        => /\ rs'[1].disable_tags = rs[1].disable_tags - 1
                           /\ rs'[1].disable_tags = 0
                                <=> OpenImages(e.node.parent) = 0
                   /\ e.node.t # "Image"
                        => rs'[1].disable_tags = rs[1].disable_tags]_vars

\* render has returned from an Image that holds an Image that holds a Text:
\* the counter went 1, 2, 2, 1, 0
C13_Witness ==
    /\ calls[1].pc = "returned"
    /\ Len(calls[1].events) = 5
    /\ calls[1].events[1] = entering(Image(Str.url_http, <<>>))
    /\ calls[1].events[2].node.t = "Image"
    /\ calls[1].events[2].entering
    /\ calls[1].events[3].node.t = "Text"
    /\ calls[1].events[5] = exiting(Image(Str.url_http, <<>>))
    /\ rs[1].disable_tags = 0

-----------------------------------------------------------------------------
(* C14                                                                     *)

\* C14 as claimed: while an Image is open, what the buffer has gained since
\* the Image's prefix holds no substring of the form '<' ... '>', whatever
\* the nodes inside it emit and in however many out() calls; and with no
\* Image open out(s) appends s as it is.
C14_Claim ==
    /\ (calls[1].pc = "loop" /\ rs[1].disable_tags > 0)
          => ~reHtmlTagSearch(AltText)
    /\ (calls[1].pc = "loop" /\ rs[1].disable_tags = 0)
          => \A s \in {Str.span, Str.lt, Str.x, Markup.omitted} :
                out(rs[1], s).buf = rs[1].buf \o s

-----------------------------------------------------------------------------
(* C15                                                                     *)

\* what call c returns when no other call runs: renderNodes of a renderer
\* just constructed, on the events of c
Alone(c) ==
    renderNodes([rs[calls[c].self] EXCEPT !.buf = <<>>, !.last_out = <<>>,
                                          !.disable_tags = 0],
                calls[c].events)

\* C15: buf, last_out and disable_tags belong to the instance: a call that
\* begins (lines 55-57) empties the buffer of its instance whatever another
\* call on that instance has written, and a pass of one call's loop writes
\* the fields of its own instance only; so with an instance per call every
\* call returns, in every interleaving, what it returns alone.  (On one
\* instance it need not: C15_Witness.)
C15_Concurrent ==
    /\ [](calls[1].self # calls[2].self
            => \A c \in Calls :
                  calls[c].pc = "returned" => calls[c].result = Alone(c))
    /\ [][\A c \in Calls :
            /\ calls'[c].ncalls # calls[c].ncalls
                  => rs'[calls[c].self].buf = <<>>
            /\ calls'[c] # calls[c]
                  => \A i \in Instances \ {calls[c].self} : rs'[i] = rs[i]]_vars

\* the two calls ran on one instance and call 1 has returned a string that is
\* not the one its document renders to alone: text of the document of call 2
\* is in it
C15_Witness ==
    /\ calls[1].self = calls[2].self
    /\ calls[1].pc = "returned"
    /\ calls[1].events = <<entering(Text(Str.x))>>
    /\ calls[2].events = <<entering(Text(Str.one))>>
    /\ Alone(1) = Str.x
    /\ calls[1].result = Str.one \o Str.x

-----------------------------------------------------------------------------
(* C16                                                                     *)

IsPrefix(p, s) == Len(p) <= Len(s) /\ SubSeq(s, 1, Len(p)) = p

-----------------------------------------------------------------------------
(* C17                                                                     *)

\* the first whitespace-delimited token of s, '' if s holds none
FirstToken(s) ==
    LET words == {i \in 1..Len(s) : s[i] \notin Whitespace}
    IN  IF words = {} THEN <<>>
        ELSE LET from == CHOOSE i \in words : \A j \in words : i <= j
                 to == CHOOSE i \in from..Len(s) :
                          /\ \A j \in from..i : j \in words
                          /\ (i + 1) \in 1..Len(s) => (i + 1) \notin words
             IN  SubSeq(s, from, to)

\* ' class="language-T"' for the first token T of info, '' if it has none
ClassOf(info) ==
    IF FirstToken(info) = <<>> THEN <<>>
    ELSE <<" ", "c", "l", "a", "s", "s", "=", "\"", "l", "a", "n", "g", "u", "a", "g", "e", "-">>
         \o escape_xml(FirstToken(info), TRUE) \o <<"\"">>

\* C17 as claimed: the event of a CodeBlock appends, after cr(), <pre><code
\* with class="language-T" for the first whitespace-delimited token T of its
\* info string, if it holds one (info strings that begin with whitespace
\* included), and with no class otherwise, then '>', the escaped literal,
\* </code></pre> and a newline.
C17_Claim ==
    [][Handled("CodeBlock")
        => rs'[1].buf
             = cr(rs[1]).buf
               \o <<"<", "p", "r", "e", ">", "<", "c", "o", "d", "e">>
               \o ClassOf(LastEvent(calls'[1]).node.info)
               \o <<">">>
               \o escape_xml(LastEvent(calls'[1]).node.literal, FALSE)
               \o <<"<", "/", "c", "o", "d", "e", ">", "<", "/", "p", "r", "e", ">", "\n">>]_vars

-----------------------------------------------------------------------------
(* C18                                                                     *)

\* C18: no event of an Image raises, an exiting event with no entering event
\* before it included: it takes 1 from disable_tags, below 0 if need be, and
\* the call goes on.  disable_tags is the number of Image nodes open less the
\* number of stray exits.  While it is below 1 out() strips nothing: an Emph
\* appends its tag and a Text its escaped literal.  An Image entered with the
\* counter not 0 appends no prefix, and one exited to a counter not 0 appends
\* no title and no closing '" />'.
C18_StrayExit ==
    /\ [](calls[1].pc # "idle"
            => /\ calls[1].pc # "raised"
               /\ rs[1].disable_tags
                    = OpenImages(calls[1].cur)
                      - StrayExits(calls[1].events, <<>>))
    /\ [][C13_Event
            => LET e == LastEvent(calls'[1])
                   image == e.node.t = "Image"
               IN  /\ (image /\ e.entering)
                        => rs'[1].disable_tags = rs[1].disable_tags + 1
                   /\ (image /\ ~e.entering)
                        => rs'[1].disable_tags = rs[1].disable_tags - 1
                   /\ (image /\ e.entering /\ rs[1].disable_tags # 0)
                        => rs'[1].buf = rs[1].buf
                   /\ (image /\ ~e.entering /\ rs[1].disable_tags # 1)
                        => rs'[1].buf = rs[1].buf
                   /\ (e.node.t = "Emph" /\ rs[1].disable_tags < 1)
                        => rs'[1].buf
                             = rs[1].buf
                               \o (IF e.entering THEN <<"<", "e", "m", ">">>
                                   ELSE <<"<", "/", "e", "m", ">">>)
                   /\ (e.node.t = "Text" /\ rs[1].disable_tags < 1)
                        => rs'[1].buf
                             = rs[1].buf \o escape_xml(e.node.literal, FALSE)
              ]_vars

\* inside an Emph, after the exiting event of an Image never entered, an
\* Image holding an Emph has been entered and left: the buffer holds the tags
\* of both Emph nodes and nothing of the Image, and the counter is -1 again
C18_Witness ==
    /\ calls[1].pc = "loop"
    /\ Len(calls[1].events) = 6
    /\ calls[1].events[1] = entering(Emph)
    /\ calls[1].events[2] = exiting(under(Image(Str.url_http, Str.t), Emph))
    /\ calls[1].events[3] = entering(under(Image(Str.url_http, Str.t), Emph))
    /\ calls[1].events[4].node.t = "Emph"
    /\ calls[1].events[6].node.t = "Image"
    /\ rs[1].disable_tags = -1
    /\ rs[1].buf = <<"<", "e", "m", ">", "<", "e", "m", ">", "<", "/", "e", "m", ">">>

-----------------------------------------------------------------------------
(* C19                                                                     *)

\* what C19 says one event contributes: <p> and </p> with a newline,
\* <hN> and </hN> with a newline, <em> and </em>, the escaped text
BlockMarkup(e) ==
    CASE e.node.t = "Paragraph" ->
            IF e.entering THEN <<"<", "p", ">">>
            ELSE <<"<", "/", "p", ">", "\n">>
      [] e.node.t = "Heading" ->
            IF e.entering THEN <<"<", "h">> \o str(e.node.level) \o <<">">>
            ELSE <<"<", "/", "h">> \o str(e.node.level) \o <<">", "\n">>
      [] e.node.t = "Emph" ->
            IF e.entering THEN <<"<", "e", "m", ">">>
            ELSE <<"<", "/", "e", "m", ">">>
      [] e.node.t = "Text" -> escape_xml(e.node.literal, FALSE)
      [] OTHER -> <<>>

RECURSIVE BlocksHtml(_)
\* the concatenation, in document order, of what the events contribute
BlocksHtml(events) ==
    IF events = <<>> THEN <<>>
    ELSE BlockMarkup(Head(events)) \o BlocksHtml(Tail(events))

\* C19: render of a Document of Paragraph and Heading blocks returns, block
\* after block, <p>content</p> or <hN>content</hN> and one newline each: the
\* output does not begin with a newline, holds no two newlines in a row, and
\* ends with a newline when the Document holds a block.
C19_Blocks ==
    (/\ calls[1].pc = "returned"
     /\ calls[1].events[1].node.t = "Document")
        => /\ calls[1].result = BlocksHtml(calls[1].events)
           /\ ~StartsWith(calls[1].result, <<"\n">>)
           /\ ~Contains(calls[1].result, <<"\n", "\n">>)
           /\ Len(calls[1].events) > 2 => EndsWith(calls[1].result, <<"\n">>)

\* render has returned for a Document of a Paragraph holding 'Hi ' and a
\* Heading of level 2 holding 'x'
C19_Witness ==
    /\ calls[1].pc = "returned"
    /\ Len(calls[1].events) = 8
    /\ calls[1].events[2].node.t = "Paragraph"
    /\ calls[1].events[5].node.t = "Heading"
    /\ calls[1].result = <<"<", "p", ">", "H", "i", " ", "<", "/", "p", ">", "\n", "<", "h", "2", ">", "x", "<", "/", "h", "2", ">", "\n">>

-----------------------------------------------------------------------------
(* C20                                                                     *)

\* with last_out = '\n', the buffer of self is empty or ends with a newline
FreshLine(self) ==
    self.last_out = <<"\n">>
        => (self.buf = <<>> \/ EndsWith(self.buf, <<"\n">>))

\* C20: in every state of a render call, last_out = '\n' only with a buffer
\* that is empty or ends with a newline; and so it is after a cr() and after
\* an out(s) from there, whatever s and whether tags are stripped or not:
\* inside the handlers too.
C20_FreshLine ==
    calls[1].pc # "idle" =>
        /\ FreshLine(rs[1])
        /\ FreshLine(cr(rs[1]))
        /\ \A s \in {<<>>, <<"\n">>, Str.x, Str.span, Str.div, Markup.omitted,
                     <<"<", "\n", ">">>, <<"\n", "<", "b", ">">>} :
              /\ FreshLine(out(rs[1], s))
              /\ FreshLine(cr(out(rs[1], s)))
              /\ FreshLine(out(cr(rs[1]), s))

\* a Softbreak inside an Image: out('\n') was called with tags being stripped,
\* and the buffer ends with the newline
C20_Witness ==
    /\ calls[1].pc = "loop"
    /\ rs[1].disable_tags = 1
    /\ LastEvent(calls[1]).node.t = "Softbreak"
    /\ rs[1].last_out = <<"\n">>
    /\ EndsWith(rs[1].buf, Markup.alt \o <<"\n">>)

=============================================================================
